---- MODULE Spec2Model ----
(***************************************************************************)
(* Model of the two cover-art maintenance scripts:                         *)
(*   scripts/update_cover_art_urls.py            (sequential variant)      *)
(*   scripts/update_cover_art_urls_optimized.py  (process-pool variant)    *)
(*                                                                         *)
(* A Python string is a sequence of one-character strings.  A JSON value   *)
(* stored under "coverArt" is [kind, s]: kind "str" with its characters,   *)
(* or kind "num" (a JSON number, which has no startswith method).  A track *)
(* is a function from its keys to values.  The file on disk is             *)
(* [kind, data]: kind "json" (an array of tracks), "missing", "garbage"    *)
(* (not valid JSON) or "truncated" (opened with mode "w", nothing dumped   *)
(* yet).                                                                   *)
(*                                                                         *)
(* os.path.dirname is modelled as posixpath.dirname; on paths without a    *)
(* backslash or a drive letter (the only ones drawn here) ntpath.dirname   *)
(* returns the same value.                                                 *)
(***************************************************************************)
EXTENDS Integers, Sequences, FiniteSets, TLC

VARIABLES
    variant,        \* "seq": update_cover_art_urls.py, "par": ..._optimized.py
    base_url,       \* the base_url handed to the per-record transform
    num_cores,      \* multiprocessing.cpu_count()
    file,           \* content of tracks.json on disk
    orig,           \* history: orig[r] is the file content when run r started
    run,            \* number of the current run of the script
    last,           \* history: how the previous run ended ("none" for the first)
    pc,             \* position of main()
    tracks,         \* main's list `tracks`
    idx,            \* sequential variant: index of the next track of the for loop
    updated_count,  \* main's updated_count
    results,        \* optimized variant: the list returned by pool.map
    pool,           \* optimized variant: state of the Pool
    taskq,          \* optimized variant: chunks not yet taken by a worker
    worker,         \* optimized variant: chunk a worker is processing, 0 if idle
    outq,           \* optimized variant: chunk results, in order of completion
    writes          \* number of times this run opened the file for writing

vars == <<variant, base_url, num_cores, file, orig, run, last, pc, tracks, idx,
          updated_count, results, pool, taskq, worker, outq, writes>>

(***************************************************************************)
(* Bounds of the explored input space.                                     *)
(***************************************************************************)
MaxTracks == 2      \* longest collection built from SampleTracks
MaxLen == 3         \* longest coverArt string of a one-record collection
LongLen == 5        \* length of the collections that are dispatched in chunks
MaxCores == 2       \* largest cpu_count()
MaxRuns == 2        \* how many times the script is run on the same file

(***************************************************************************)
(* Strings.                                                                *)
(***************************************************************************)
SLASH == "/"

\* the literal "https://tune-mu.vercel.app"
BASE_URL ==
    <<"h","t","t","p","s",":","/","/","t","u","n","e","-","m","u",".",
      "v","e","r","c","e","l",".","a","p","p">>

\* the literal "/Cover.jpg" of f"{directory}/Cover.jpg"
SlashCover == <<"/","C","o","v","e","r",".","j","p","g">>

\* str.startswith("/")
StartsWith(s) == Len(s) >= 1 /\ s[1] = SLASH

\* a strip of the first "/" only
LStripMut(s) == IF StartsWith(s) THEN Tail(s) ELSE s

\* str.lstrip("/"): removes every leading "/"
RECURSIVE LStrip(_)
LStrip(s) == IF StartsWith(s) THEN LStrip(Tail(s)) ELSE s

\* str.rstrip("/")
RECURSIVE RStrip(_)
RStrip(s) ==
    IF Len(s) >= 1 /\ s[Len(s)] = SLASH THEN RStrip(SubSeq(s, 1, Len(s) - 1)) ELSE s

\* p.rfind("/") + 1, as a count of characters
RFindSlash(p) ==
    LET hits == {k \in 1..Len(p) : p[k] = SLASH}
    IN  IF hits = {} THEN 0 ELSE CHOOSE k \in hits : \A j \in hits : j <= k

\* posixpath.dirname
Dirname(p) ==
    LET i == RFindSlash(p)
        head == SubSeq(p, 1, i)
    IN  IF head # <<>> /\ (\E k \in 1..Len(head) : head[k] # SLASH)
        THEN RStrip(head) ELSE head

\* str.split("/")
RECURSIVE Split(_)
Split(s) ==
    LET hits == {k \in 1..Len(s) : s[k] = SLASH}
    IN  IF hits = {} THEN <<s>>
        ELSE LET k == CHOOSE h \in hits : \A j \in hits : h <= j
             IN  <<SubSeq(s, 1, k - 1)>> \o Split(SubSeq(s, k + 1, Len(s)))

\* the characters urllib.parse.quote never encodes, plus its default safe="/"
AlwaysSafe ==
    {"a","b","c","d","e","f","g","h","i","j","k","l","m","n","o","p","q","r",
     "s","t","u","v","w","x","y","z","A","B","C","D","E","F","G","H","I","J",
     "K","L","M","N","O","P","Q","R","S","T","U","V","W","X","Y","Z","0","1",
     "2","3","4","5","6","7","8","9","_",".","-","~","/"}

\* urllib.parse.quote of one character
QuoteChar(c) ==
    IF c \in AlwaysSafe THEN <<c>>
    ELSE CASE c = " " -> <<"%","2","0">>
           [] c = "%" -> <<"%","2","5">>
           [] c = ":" -> <<"%","3","A">>

\* urllib.parse.quote(segment)
RECURSIVE Quote(_)
Quote(seg) == IF seg = <<>> THEN <<>> ELSE QuoteChar(Head(seg)) \o Quote(Tail(seg))

\* "/".join(segments)
RECURSIVE Join(_)
Join(segs) ==
    IF Len(segs) = 0 THEN <<>>
    ELSE IF Len(segs) = 1 THEN segs[1]
    ELSE segs[1] \o <<SLASH>> \o Join(Tail(segs))

Str(s) == [kind |-> "str", s |-> s]
Num == [kind |-> "num", s |-> <<>>]

(***************************************************************************)
(* The per-record transform of the sequential variant (body of the loop).  *)
(***************************************************************************)
\* the rewrite without the base URL in front
SeqRewriteMut(coverArt, base) ==
    <<SLASH>> \o Join([k \in 1..Len(Split(Dirname(LStrip(coverArt)) \o SlashCover)) |->
                         Quote(Split(Dirname(LStrip(coverArt)) \o SlashCover)[k])])

\* lines 31-47: the new value of coverArt
SeqRewrite(coverArt, base) ==
    LET relative_path == LStrip(coverArt)
        directory == Dirname(relative_path)
        new_path == directory \o SlashCover
        path_segments == Split(new_path)
        encoded_segments == [k \in 1..Len(path_segments) |-> Quote(path_segments[k])]
        encoded_path == Join(encoded_segments)
    IN  base \o <<SLASH>> \o encoded_path

\* the loop body without the startswith("/") test
SeqBodyMut(track, base) ==
    IF "coverArt" \in DOMAIN track
    THEN IF track.coverArt.kind # "str"
         THEN [raised |-> TRUE, track |-> track, updated |-> FALSE]
         ELSE [raised |-> FALSE,
               track |-> [track EXCEPT !.coverArt = Str(SeqRewrite(track.coverArt.s, base))],
               updated |-> TRUE]
    ELSE [raised |-> FALSE, track |-> track, updated |-> FALSE]

\* one iteration: [raised, track, updated]
SeqBody(track, base) ==
    IF "coverArt" \in DOMAIN track
    THEN IF track.coverArt.kind # "str"
         THEN [raised |-> TRUE, track |-> track, updated |-> FALSE]
         ELSE IF StartsWith(track.coverArt.s)
              THEN [raised |-> FALSE,
                    track |-> [track EXCEPT !.coverArt = Str(SeqRewrite(track.coverArt.s, base))],
                    updated |-> TRUE]
              ELSE [raised |-> FALSE, track |-> track, updated |-> FALSE]
    ELSE [raised |-> FALSE, track |-> track, updated |-> FALSE]

\* an assignment that lands on the first element
StoreTrackMut(list, i, track) == [list EXCEPT ![1] = track]

\* `track` aliases tracks[i]: the assignment mutates the list element in place
StoreTrack(list, i, track) == [list EXCEPT ![i] = track]

(***************************************************************************)
(* process_track of the optimized variant: [raised, track, ret].  `track`  *)
(* is the worker's unpickled copy.                                         *)
(***************************************************************************)
ProcessTrack(track, base) ==
    IF "coverArt" \in DOMAIN track
    THEN IF track.coverArt.kind # "str"
         THEN [raised |-> TRUE, track |-> track, ret |-> FALSE]
         ELSE IF StartsWith(track.coverArt.s)
              THEN LET relative_path == LStrip(track.coverArt.s)
                       directory == Dirname(relative_path)
                       new_path == directory \o SlashCover
                       path_segments == Split(new_path)
                       encoded_segments ==
                           [k \in 1..Len(path_segments) |-> Quote(path_segments[k])]
                       encoded_path == Join(encoded_segments)
                   IN  [raised |-> FALSE,
                        track |-> [track EXCEPT
                                     !.coverArt = Str(base \o <<SLASH>> \o encoded_path)],
                        ret |-> TRUE]
              ELSE [raised |-> FALSE, track |-> track, ret |-> FALSE]
    ELSE [raised |-> FALSE, track |-> track, ret |-> FALSE]

(***************************************************************************)
(* multiprocessing.Pool.map: the iterable is cut into chunks, every chunk   *)
(* is pickled to one worker, which applies the function to its own copies.  *)
(***************************************************************************)
\* chunksize, extra = divmod(len(iterable), len(pool) * 4); if extra: chunksize += 1
ChunkSize(n, cores) ==
    IF n = 0 THEN 0
    ELSE IF n % (cores * 4) # 0 THEN (n \div (cores * 4)) + 1 ELSE n \div (cores * 4)

\* number of task batches
NumChunks(n, cores) ==
    IF n = 0 THEN 0
    ELSE LET cs == ChunkSize(n, cores)
         IN  (n \div cs) + (IF n % cs # 0 THEN 1 ELSE 0)

ChunkLo(c, n, cores) == (c - 1) * ChunkSize(n, cores) + 1

ChunkHi(c, n, cores) ==
    IF c * ChunkSize(n, cores) < n THEN c * ChunkSize(n, cores) ELSE n

\* mapstar in the worker: list(map(func, chunk)); an exception aborts the chunk
RECURSIVE RunChunk(_, _)
RunChunk(chunk, base) ==
    IF chunk = <<>> THEN [ok |-> TRUE, flags |-> <<>>, copies |-> <<>>]
    ELSE LET r == ProcessTrack(Head(chunk), base)
         IN  IF r.raised
             THEN [ok |-> FALSE, flags |-> <<>>, copies |-> <<r.track>>]
             ELSE LET rest == RunChunk(Tail(chunk), base)
                  IN  [ok |-> rest.ok,
                       flags |-> IF rest.ok THEN <<r.ret>> \o rest.flags ELSE <<>>,
                       copies |-> <<r.track>> \o rest.copies]

\* the flags concatenated in the order the chunks were reported
GatherMut(out, n, cores) ==
    LET F[k \in 0..Len(out)] == IF k = 0 THEN <<>> ELSE F[k - 1] \o out[k].flags
    IN  F[Len(out)]

\* MapResult._set stores the flags of chunk c at [c*chunksize, (c+1)*chunksize)
Gather(out, n, cores) ==
    [i \in 1..n |->
        \E k \in 1..Len(out) :
            /\ ChunkLo(out[k].chunk, n, cores) <= i
            /\ i <= ChunkHi(out[k].chunk, n, cores)
            /\ i - ChunkLo(out[k].chunk, n, cores) + 1 <= Len(out[k].flags)
            /\ out[k].flags[i - ChunkLo(out[k].chunk, n, cores) + 1]]

\* the MapResult is ready once every chunk has reported
MapReady(out, n, cores) == Len(out) = NumChunks(n, cores)

\* sum(1 for result in results if result)
CountTrue(flags) == Cardinality({i \in 1..Len(flags) : flags[i]})

\* a load that swallows the error and yields an empty list
JsonLoadMut(f) ==
    [raised |-> FALSE, value |-> IF f.kind = "json" THEN f.data ELSE <<>>]

\* json.load(open(path)): raises when the file is missing or is not JSON
JsonLoad(f) == [raised |-> f.kind # "json", value |-> f.data]

\* a program order that writes the file right after dispatching the map
ParNextMut(p) ==
    CASE p = "start" -> "pool"
      [] p = "pool" -> "map"
      [] p = "map" -> "open"
      [] p = "wait" -> "close"
      [] p = "close" -> "join"
      [] p = "join" -> "count"
      [] p = "count" -> "open"
      [] p = "open" -> "dump"
      [] p = "dump" -> "done"

\* program order of main() of the optimized variant
ParNext(p) ==
    CASE p = "start" -> "pool"
      [] p = "pool" -> "map"
      [] p = "map" -> "wait"
      [] p = "wait" -> "close"
      [] p = "close" -> "join"
      [] p = "join" -> "count"
      [] p = "count" -> "open"
      [] p = "open" -> "dump"
      [] p = "dump" -> "done"

Workers == 1..num_cores

(***************************************************************************)
(* Inputs.                                                                 *)
(***************************************************************************)
Alphabet == {"/", "a", " "}

RECURSIVE StringsUpTo(_)
StringsUpTo(n) ==
    IF n = 0 THEN {<<>>}
    ELSE LET shorter == StringsUpTo(n - 1)
         IN  shorter \cup {Append(s, c) : s \in {t \in shorter : Len(t) = n - 1}, c \in Alphabet}

SampleTracks ==
    { [coverArt |-> Str(<<"/","a"," ","b","/","c">>), title |-> "X"],
      [coverArt |-> Str(<<"/","b">>)],
      [coverArt |-> Str(<<"a","/","b">>), title |-> "X"],
      [title |-> "no art"],
      [coverArt |-> Num, title |-> "X"] }

LongTracks ==
    { [coverArt |-> Str(<<"/","a","/","b">>), title |-> "X"],
      [title |-> "no art"] }

RECURSIVE ListsOf(_, _)
ListsOf(S, n) ==
    IF n = 0 THEN {<<>>}
    ELSE {Append(l, t) : l \in ListsOf(S, n - 1), t \in S}

Json(data) == [kind |-> "json", data |-> data]

BaseUrls == {BASE_URL, <<>>, <<"/","b">>}

Idle(f, v, b, c) ==
    /\ variant = v
    /\ base_url = b
    /\ num_cores = c
    /\ file = f
    /\ orig = <<f>>
    /\ run = 1
    /\ last = "none"
    /\ pc = "start"
    /\ tracks = <<>>
    /\ idx = 0
    /\ updated_count = 0
    /\ results = <<>>
    /\ pool = "none"
    /\ taskq = <<>>
    /\ worker = [w \in 1..c |-> 0]
    /\ outq = <<>>
    /\ writes = 0

\* collections of sample tracks, and files that cannot be loaded
InitSamples ==
    \E v \in {"seq", "par"}, b \in BaseUrls, n \in 0..MaxTracks :
    \E l \in ListsOf(SampleTracks, n) :
    \E c \in 1..(IF v = "par" THEN MaxCores ELSE 1) :
        Idle(Json(l), v, b, c)

InitUnreadable ==
    \E v \in {"seq", "par"}, k \in {"missing", "garbage"} :
        Idle([kind |-> k, data |-> <<>>], v, BASE_URL, 1)

\* one record, every coverArt string up to MaxLen
InitStrings ==
    \E v \in {"seq", "par"}, b \in BaseUrls, s \in StringsUpTo(MaxLen) :
        Idle(Json(<<[coverArt |-> Str(s), title |-> "X"]>>), v, b, 1)

\* collections long enough for pool.map to cut chunks of several records
InitLong ==
    \E v \in {"seq", "par"}, l \in ListsOf(LongTracks, LongLen) :
        Idle(Json(l), v, BASE_URL, 1)

Init == InitSamples \/ InitUnreadable \/ InitStrings \/ InitLong

(***************************************************************************)
(* main(), both variants.                                                  *)
(***************************************************************************)
\* with open(path, "r") as f: tracks = json.load(f)
Load ==
    /\ pc = "start"
    /\ LET r == JsonLoad(file)
       IN  IF r.raised
           THEN /\ pc' = "crashed"
                /\ UNCHANGED <<tracks, idx>>
           ELSE /\ tracks' = r.value
                /\ idx' = 1
                /\ pc' = IF variant = "seq" THEN "loop" ELSE ParNext(pc)
    /\ UNCHANGED <<variant, base_url, num_cores, file, orig, run, last, updated_count,
                   results, pool, taskq, worker, outq, writes>>

\* sequential: one iteration of `for track in tracks`
SeqStep ==
    /\ variant = "seq"
    /\ pc = "loop"
    /\ idx <= Len(tracks)
    /\ LET r == SeqBody(tracks[idx], base_url)
       IN  IF r.raised
           THEN /\ pc' = "crashed"
                /\ UNCHANGED <<tracks, idx, updated_count>>
           ELSE /\ tracks' = StoreTrack(tracks, idx, r.track)
                /\ updated_count' = updated_count + (IF r.updated THEN 1 ELSE 0)
                /\ idx' = idx + 1
                /\ pc' = pc
    /\ UNCHANGED <<variant, base_url, num_cores, file, orig, run, last, results, pool,
                   taskq, worker, outq, writes>>

\* sequential: the loop is exhausted
SeqLoopEnd ==
    /\ variant = "seq"
    /\ pc = "loop"
    /\ idx > Len(tracks)
    /\ pc' = "open"
    /\ UNCHANGED <<variant, base_url, num_cores, file, orig, run, last, tracks, idx,
                   updated_count, results, pool, taskq, worker, outq, writes>>

\* optimized: pool = multiprocessing.Pool(processes=num_cores)
CreatePool ==
    /\ variant = "par"
    /\ pc = "pool"
    /\ pool' = "open"
    /\ pc' = ParNext(pc)
    /\ UNCHANGED <<variant, base_url, num_cores, file, orig, run, last, tracks, idx,
                   updated_count, results, taskq, worker, outq, writes>>

\* optimized: pool.map puts the task batches on the task queue
MapSubmit ==
    /\ variant = "par"
    /\ pc = "map"
    /\ taskq' = [c \in 1..NumChunks(Len(tracks), num_cores) |-> c]
    /\ pc' = ParNext(pc)
    /\ UNCHANGED <<variant, base_url, num_cores, file, orig, run, last, tracks, idx,
                   updated_count, results, pool, worker, outq, writes>>

\* a worker process takes the next batch
WorkerGet(w) ==
    /\ worker[w] = 0
    /\ taskq # <<>>
    /\ worker' = [worker EXCEPT ![w] = Head(taskq)]
    /\ taskq' = Tail(taskq)
    /\ UNCHANGED <<variant, base_url, num_cores, file, orig, run, last, pc, tracks, idx,
                   updated_count, results, pool, outq, writes>>

\* a worker process runs its batch on its copies and reports the result
WorkerRun(w) ==
    /\ worker[w] # 0
    /\ LET c == worker[w]
           n == Len(tracks)
           chunk == SubSeq(tracks, ChunkLo(c, n, num_cores), ChunkHi(c, n, num_cores))
           r == RunChunk(chunk, base_url)
       IN  outq' = Append(outq, [chunk |-> c, ok |-> r.ok, flags |-> r.flags,
                                 copies |-> r.copies])
    /\ worker' = [worker EXCEPT ![w] = 0]
    /\ UNCHANGED <<variant, base_url, num_cores, file, orig, run, last, pc, tracks, idx,
                   updated_count, results, pool, taskq, writes>>

\* optimized: pool.map returns the flags, or re-raises a worker's exception
MapReturn ==
    /\ variant = "par"
    /\ pc = "wait"
    /\ MapReady(outq, Len(tracks), num_cores)
    /\ IF \E k \in 1..Len(outq) : ~outq[k].ok
       THEN /\ pc' = "crashed"
            /\ UNCHANGED results
       ELSE /\ results' = Gather(outq, Len(tracks), num_cores)
            /\ pc' = ParNext(pc)
    /\ UNCHANGED <<variant, base_url, num_cores, file, orig, run, last, tracks, idx,
                   updated_count, pool, taskq, worker, outq, writes>>

\* optimized: pool.close()
PoolClose ==
    /\ variant = "par"
    /\ pc = "close"
    /\ pool' = "closed"
    /\ pc' = ParNext(pc)
    /\ UNCHANGED <<variant, base_url, num_cores, file, orig, run, last, tracks, idx,
                   updated_count, results, taskq, worker, outq, writes>>

\* optimized: pool.join() returns when the workers have drained the queue
PoolJoin ==
    /\ variant = "par"
    /\ pc = "join"
    /\ taskq = <<>>
    /\ \A w \in Workers : worker[w] = 0
    /\ pool' = "joined"
    /\ pc' = ParNext(pc)
    /\ UNCHANGED <<variant, base_url, num_cores, file, orig, run, last, tracks, idx,
                   updated_count, results, taskq, worker, outq, writes>>

\* optimized: updated_count = sum(1 for result in results if result)
Count ==
    /\ variant = "par"
    /\ pc = "count"
    /\ updated_count' = CountTrue(results)
    /\ pc' = ParNext(pc)
    /\ UNCHANGED <<variant, base_url, num_cores, file, orig, run, last, tracks, idx,
                   results, pool, taskq, worker, outq, writes>>

\* open(path, "w"): the file is truncated
OpenWrite ==
    /\ pc = "open"
    /\ file' = [kind |-> "truncated", data |-> <<>>]
    /\ writes' = writes + 1
    /\ pc' = IF variant = "seq" THEN "dump" ELSE ParNext(pc)
    /\ UNCHANGED <<variant, base_url, num_cores, orig, run, last, tracks, idx,
                   updated_count, results, pool, taskq, worker, outq>>

\* json.dump(tracks, f): main's list is serialized
Dump ==
    /\ pc = "dump"
    /\ file' = Json(tracks)
    /\ pc' = IF variant = "seq" THEN "done" ELSE ParNext(pc)
    /\ UNCHANGED <<variant, base_url, num_cores, orig, run, last, tracks, idx,
                   updated_count, results, pool, taskq, worker, outq, writes>>

\* the script is started again on the file the previous run left
Rerun ==
    /\ pc \in {"done", "crashed"}
    /\ run < MaxRuns
    /\ run' = run + 1
    /\ last' = pc
    /\ orig' = Append(orig, file)
    /\ pc' = "start"
    /\ tracks' = <<>>
    /\ idx' = 0
    /\ updated_count' = 0
    /\ results' = <<>>
    /\ pool' = "none"
    /\ taskq' = <<>>
    /\ worker' = [w \in Workers |-> 0]
    /\ outq' = <<>>
    /\ writes' = 0
    /\ UNCHANGED <<variant, base_url, num_cores, file>>

Next ==
    \/ Load
    \/ SeqStep
    \/ SeqLoopEnd
    \/ CreatePool
    \/ MapSubmit
    \/ \E w \in Workers : WorkerGet(w)
    \/ \E w \in Workers : WorkerRun(w)
    \/ MapReturn
    \/ PoolClose
    \/ PoolJoin
    \/ Count
    \/ OpenWrite
    \/ Dump
    \/ Rerun

Spec == Init /\ [][Next]_vars

(***************************************************************************)
(* Vocabulary of the properties, stated without the operators above.       *)
(***************************************************************************)
\* the eligibility test: the record has coverArt, a string that begins with "/"
Eligible(t) ==
    /\ "coverArt" \in DOMAIN t
    /\ t.coverArt.kind = "str"
    /\ t.coverArt.s # <<>>
    /\ Head(t.coverArt.s) = "/"

\* s without all its leading "/"
StripAll(s) ==
    LET k == CHOOSE j \in 1..(Len(s) + 1) :
                 /\ j > Len(s) \/ s[j] # "/"
                 /\ \A i \in 1..(j - 1) : s[i] = "/"
    IN  SubSeq(s, k, Len(s))

\* s without its first character
StripOne(s) == SubSeq(s, 2, Len(s))

\* directory part: what precedes the last "/" and the "/" run it ends
DirPart(p) ==
    LET slashes == {k \in 1..Len(p) : p[k] = "/"}
        last_slash == IF slashes = {} THEN 0
                      ELSE CHOOSE k \in slashes : \A j \in slashes : j <= k
        others == {k \in 1..last_slash : p[k] # "/"}
    IN  IF others = {} THEN SubSeq(p, 1, last_slash)
        ELSE SubSeq(p, 1, CHOOSE k \in others : \A j \in others : j <= k)

\* percent-encoding character by character, "/" kept
PctChar(c) ==
    CASE c = " " -> <<"%","2","0">>
      [] c = "%" -> <<"%","2","5">>
      [] c = ":" -> <<"%","3","A">>
      [] OTHER -> <<c>>

PctPath(s) ==
    LET F[k \in 0..Len(s)] == IF k = 0 THEN <<>> ELSE F[k - 1] \o PctChar(s[k])
    IN  F[Len(s)]

CoverJpg == <<"C","o","v","e","r",".","j","p","g">>

\* base_url + "/" + E with all leading "/" stripped
ExpectedUrl(v, base) == base \o <<"/">> \o PctPath(DirPart(StripAll(v)) \o <<"/">> \o CoverJpg)

\* base_url + "/" + E with exactly one leading "/" stripped
ExpectedUrlStripOne(v, base) ==
    base \o <<"/">> \o PctPath(DirPart(StripOne(v)) \o <<"/">> \o CoverJpg)

EndsInCoverJpg(u) ==
    /\ Len(u) >= 10
    /\ SubSeq(u, Len(u) - 9, Len(u)) = <<"/">> \o CoverJpg

\* the input of the current run
Input == orig[run].data

\* <<record before, record after>> for every record the sequential loop has passed
SeqPairs ==
    IF variant = "seq" /\ idx >= 2
    THEN {<<Input[i], tracks[i]>> : i \in 1..(idx - 1)}
    ELSE {}

\* <<record sent, worker's copy after process_track>> for every reported chunk
ParPairs ==
    UNION { { <<tracks[ChunkLo(outq[k].chunk, Len(tracks), num_cores) + j - 1],
                outq[k].copies[j]>> : j \in 1..Len(outq[k].copies) } :
            k \in 1..Len(outq) }

Pairs == SeqPairs \cup ParPairs

\* the run uses the base URL that main() hard-codes
Configured == base_url = BASE_URL

(***************************************************************************)
(* C1.  The collection the parallel variant writes is, record by record,   *)
(* the collection the sequential variant writes for the same input and     *)
(* base URL: every eligible record carries the rewritten URL in the file.  *)
(* Stated for the base URL of main().                                      *)
(***************************************************************************)
C1_ParallelWritesSequentialOutput ==
    (Configured /\ variant = "par" /\ pc = "done") =>
        /\ file.kind = "json"
        /\ Len(file.data) = Len(Input)
        /\ \A i \in 1..Len(Input) : file.data[i] = SeqBody(Input[i], base_url).track

(***************************************************************************)
(* C2 as amended.  For every eligible record the transform sets coverArt   *)
(* to base_url + "/" + E, where E is the percent-encoding ("/" kept) of    *)
(* the directory part of the value without ALL its leading "/", followed   *)
(* by "/Cover.jpg"; the result ends in the segment Cover.jpg.              *)
(***************************************************************************)
C2_RewrittenUrlStripsAllSlashes ==
    \A p \in Pairs :
        Eligible(p[1]) =>
            /\ p[2].coverArt = Str(ExpectedUrl(p[1].coverArt.s, base_url))
            /\ EndsInCoverJpg(p[2].coverArt.s)

\* C2 as stated: exactly one leading "/" is stripped, also when the value
\* begins with several.  Stated for the base URL of main().
C2_RewrittenUrlStripsOneSlash ==
    \A p \in Pairs :
        (Configured /\ Eligible(p[1])) =>
            /\ p[2].coverArt = Str(ExpectedUrlStripOne(p[1].coverArt.s, base_url))
            /\ EndsInCoverJpg(p[2].coverArt.s)

\* a record whose value begins with several "/" and has a directory has been rewritten
C2_Witness ==
    \E p \in Pairs :
        /\ Configured
        /\ Eligible(p[1])
        /\ Len(p[1].coverArt.s) >= 3
        /\ p[1].coverArt.s[2] = "/"
        /\ p[1].coverArt.s[3] # "/"
        /\ p[2] # p[1]

(***************************************************************************)
(* C3 as amended.  For a NON-EMPTY base URL that does not begin with "/",  *)
(* a run of the transform over a collection a completed run has already    *)
(* rewritten changes no record and counts no update; and process_track     *)
(* applied to a copy it has rewritten returns False and leaves it alone.   *)
(***************************************************************************)
SecondPassIsIdentity ==
    /\ (variant = "seq" /\ last = "done") =>
           /\ updated_count = 0
           /\ pc \in {"loop", "open", "dump", "done"} => tracks = Input
           /\ pc = "done" => file = orig[run]
    /\ \A p \in ParPairs :
           Eligible(p[1]) =>
               /\ ~ProcessTrack(p[2], base_url).ret
               /\ ProcessTrack(p[2], base_url).track = p[2]

SameButCoverArt(before, after) ==
    /\ DOMAIN after = DOMAIN before
    /\ \A k \in DOMAIN before \ {"coverArt"} : after[k] = before[k]
    /\ ~Eligible(before) => after = before

C4_PassThrough ==
    /\ \A p \in Pairs : SameButCoverArt(p[1], p[2])
    /\ pc = "done" =>
           /\ file.kind = "json"
           /\ Len(file.data) = Len(Input)
           /\ \A i \in 1..Len(Input) : SameButCoverArt(Input[i], file.data[i])

\* a sequential run wrote a file with a rewritten record beside an untouched one
C4_Witness ==
    /\ Configured
    /\ variant = "seq"
    /\ pc = "done"
    /\ file # orig[run]
    /\ \E i, j \in 1..Len(Input) :
           /\ Eligible(Input[i])
           /\ "coverArt" \in DOMAIN Input[j]
           /\ ~Eligible(Input[j])
           /\ file.data[j] = Input[j]
           /\ file.data[i] # Input[i]

(***************************************************************************)
(* C5.  Order preservation: the written collection has the length of the   *)
(* input and its i-th record is the i-th input record, as it was or        *)
(* rewritten; in both variants.                                            *)
(***************************************************************************)
C5_OrderPreserved ==
    pc = "done" =>
        /\ file.kind = "json"
        /\ Len(file.data) = Len(Input)
        /\ \A i \in 1..Len(Input) :
               \/ file.data[i] = Input[i]
               \/ /\ Eligible(Input[i])
                  /\ file.data[i] =
                       [Input[i] EXCEPT !.coverArt = Str(ExpectedUrl(Input[i].coverArt.s, base_url))]

\* a run wrote two different records of which the second was rewritten
C5_Witness ==
    /\ Configured
    /\ pc = "done"
    /\ Len(Input) >= 2
    /\ Input[1] # Input[2]
    /\ Eligible(Input[2])
    /\ file.data[2] # Input[2]
    /\ file.data[1] = Input[1]

(***************************************************************************)
(* C6.  The updated count reported by a completed run is the number of     *)
(* eligible input records, i.e. the number of records whose coverArt in    *)
(* the written collection is the rewritten URL; in both variants.  Stated  *)
(* for the base URL of main().                                             *)
(***************************************************************************)
C6_CountIsNumberOfRewrittenRecords ==
    (Configured /\ pc = "done") =>
        /\ updated_count = Cardinality({i \in 1..Len(Input) : Eligible(Input[i])})
        /\ updated_count =
             Cardinality({i \in 1..Len(Input) :
                 /\ Eligible(Input[i])
                 /\ file.data[i].coverArt = Str(ExpectedUrl(Input[i].coverArt.s, base_url))})

(***************************************************************************)
(* C7.  pool.map returns one flag per input record, in input order: flag   *)
(* i is true iff record i was eligible, however the records were spread    *)
(* over the workers and in whatever order the workers reported.            *)
(***************************************************************************)
C7_FlagsInInputOrder ==
    (variant = "par" /\ pc \in {"close", "join", "count", "open", "dump", "done"}) =>
        /\ Len(results) = Len(Input)
        /\ \A i \in 1..Len(Input) : results[i] = Eligible(Input[i])

\* the map returned although the chunks were reported out of order, with mixed flags
C7_Witness ==
    /\ Configured
    /\ variant = "par"
    /\ pc = "close"
    /\ Len(outq) >= 2
    /\ outq[1].chunk # 1
    /\ \E i, j \in 1..Len(results) : results[i] /\ ~results[j]

(***************************************************************************)
(* C8.  In a run of the parallel variant the file is opened for writing at *)
(* most once, exactly once when the run completes, and only after every    *)
(* dispatched task has reported and the pool has been closed and joined.   *)
(***************************************************************************)
C8_WriteAfterBarrier ==
    variant = "par" =>
        /\ writes <= 1
        /\ pc = "done" => writes = 1
        /\ file.kind = "truncated" => pc = "dump"
        /\ (writes >= 1 \/ pc \in {"open", "dump"}) =>
               /\ pool = "joined"
               /\ taskq = <<>>
               /\ \A w \in Workers : worker[w] = 0
               /\ Len(outq) = NumChunks(Len(tracks), num_cores)

\* the file is open for writing after several chunks were processed
C8_Witness ==
    /\ Configured
    /\ variant = "par"
    /\ pc = "dump"
    /\ file.kind = "truncated"
    /\ Len(outq) >= 2

(***************************************************************************)
(* C9.  If the input cannot be loaded, or the transform of some record     *)
(* raises (coverArt is not a string), the run never opens the file for     *)
(* writing and the file keeps the content it had before the run.           *)
(***************************************************************************)
InputFails(f) ==
    \/ f.kind # "json"
    \/ \E i \in 1..Len(f.data) :
           "coverArt" \in DOMAIN f.data[i] /\ f.data[i].coverArt.kind # "str"

C9_FailureLeavesFileUntouched ==
    /\ InputFails(orig[run]) =>
           /\ writes = 0
           /\ file = orig[run]
           /\ pc \notin {"open", "dump", "done"}
    /\ pc = "crashed" => InputFails(orig[run])

\* the sequential run crashed on its second record after rewriting the first in memory
C9_Witness ==
    /\ Configured
    /\ variant = "seq"
    /\ pc = "crashed"
    /\ idx = 2
    /\ tracks[1] # Input[1]
    /\ file = orig[run]

(***************************************************************************)
(* C10.  Every rewritten coverArt is the base URL followed by a single     *)
(* "/" and non-empty segments separated by single "/": no "//" after the   *)
(* base URL, also for a path without a directory component.  Stated for    *)
(* the base URL of main().                                                 *)
(***************************************************************************)
WellFormedUnder(u, base) ==
    LET rest == SubSeq(u, Len(base) + 1, Len(u))
    IN  /\ Len(u) >= Len(base) + 2
        /\ SubSeq(u, 1, Len(base)) = base
        /\ rest[1] = "/"
        /\ rest[Len(rest)] # "/"
        /\ \A k \in 1..(Len(rest) - 1) : ~(rest[k] = "/" /\ rest[k + 1] = "/")

C10_NoEmptySegment ==
    \A p \in Pairs :
        (Configured /\ Eligible(p[1])) => WellFormedUnder(p[2].coverArt.s, base_url)

====
